---- MODULE Spec2Model ----
(***************************************************************************)
(* A model of periodically/backends.py: the task registry of BaseBackend,  *)
(* the execution records it creates and closes, the completion receivers   *)
(* it connects to the task_complete signal, and the clock it reads.        *)
(***************************************************************************)
EXTENDS Integers, Sequences, FiniteSets, Bags, TLC

\* ------------------------------------------------------------------ bounds
\* The clock runs from 0 to MaxTime.
MaxTime == 2
\* The record store holds at most MaxRecords execution records.
MaxRecords == 2
\* run_scheduled_tasks(tasks) is called with lists of at most MaxList tasks.
MaxList == 1
\* At most MaxCalls calls of run_scheduled_tasks and run_task are in progress
\* at a time (one calling the other through task.run(), or in other threads).
MaxCalls == 2

\* ------------------------------------------------------- program constants
\* end_time=None / completed_successfully unset: the column's null.
NULL == -1
\* logging.ERROR
ERROR == 40
\* settings.DEFAULT_TIMEOUT, in clock units: the timeout the deployment
\* configures for the tasks that have no timeout attribute. Only TaskA has
\* none.
DEFAULT_TIMEOUT == 0

\* --------------------------------------------------------- the environment
\* Task objects. has_is_blocking / has_timeout say whether the object has the
\* attribute at all (the code reads both with getattr and a default).
TaskA ==
    [name |-> "A", task_id |-> "a", cls |-> "ClsA", has_is_blocking |-> FALSE,
     is_blocking |-> TRUE, has_timeout |-> FALSE, timeout |-> 0]
TaskB ==
    [name |-> "B", task_id |-> "b", cls |-> "ClsB", has_is_blocking |-> TRUE,
     is_blocking |-> FALSE, has_timeout |-> TRUE, timeout |-> 1]
\* A second instance of b's class: the same task_id, its own timeout attribute.
TaskB2 ==
    [name |-> "B2", task_id |-> "b", cls |-> "ClsB", has_is_blocking |-> TRUE,
     is_blocking |-> FALSE, has_timeout |-> TRUE, timeout |-> 0]
\* A task of another class that declares b's task_id, non-blocking as well.
TaskBX ==
    [name |-> "BX", task_id |-> "b", cls |-> "ClsX", has_is_blocking |-> TRUE,
     is_blocking |-> FALSE, has_timeout |-> TRUE, timeout |-> 1]
\* An instance of b's class whose is_blocking attribute is True.
TaskBK ==
    [name |-> "BK", task_id |-> "b", cls |-> "ClsB", has_is_blocking |-> TRUE,
     is_blocking |-> TRUE, has_timeout |-> TRUE, timeout |-> 1]
\* A non-blocking task of another class, with a timeout attribute of its own.
TaskC ==
    [name |-> "C", task_id |-> "c", cls |-> "ClsC", has_is_blocking |-> TRUE,
     is_blocking |-> FALSE, has_timeout |-> TRUE, timeout |-> 0]
TaskObjects == {TaskA, TaskB}
\* Every task object of the application, scheduled or not.
AnyTask == {TaskA, TaskB, TaskB2, TaskBX, TaskBK, TaskC}
TaskIds == {t.task_id : t \in TaskObjects}

\* Schedule objects; hash is the value of schedule.__hash__().
Sched1 == [name |-> "s1", hash |-> 11]
Sched2 == [name |-> "s2", hash |-> 12]
Schedules == {Sched1, Sched2}

\* A TaskInfo as TaskInfo() makes it: an empty schedule set and no task
\* attribute.
Unbound == [name |-> "unbound"]
NewTaskInfo == [task |-> Unbound, schedules |-> {}]

\* The extra argument of complete_task: None, or a dict that may or may not
\* carry a 'level' key (WARNING = 30, ERROR = 40, CRITICAL = 50).
NoExtra == [given |-> FALSE, has_level |-> FALSE, level |-> 0]
LevelExtra(l) == [given |-> TRUE, has_level |-> TRUE, level |-> l]
NoLevelExtra == [given |-> TRUE, has_level |-> FALSE, level |-> 0]
Levels == {30, ERROR, 50}
Extras == {NoExtra, NoLevelExtra} \cup {LevelExtra(l) : l \in Levels}

VARIABLES
    tasks,   \* BaseBackend._tasks: task_id -> TaskInfo, for the registered ids
    subs,    \* task_complete.receivers: the list of (dispatch_uid, sender) keys
    recs,    \* the ExecutionRecord table, in order of creation
    now,     \* datetime.now()
    last,    \* the notification, pass or read that has just raised before it changed anything
    race,    \* a completion receiver and a check_timeout running concurrently
    inflight, \* a schedule_task call that is between two of its statements
    watch,   \* the row of an open execution followed until it is closed
    calls    \* the run_scheduled_tasks and run_task calls that are inside task or schedule code

vars == <<tasks, subs, recs, now, last, race, inflight, watch, calls>>

\* ------------------------------------------------------------- the helpers
\* The state an operation threads through its statements: the record table,
\* the exception that is propagating ("none" when none is), and what
\* datetime.now() reads while the statements run.
St(r) == [recs |-> r, err |-> "none", clock |-> now]
Raise(st, e) == [st EXCEPT !.err = e]

\* getattr(task, 'is_blocking', True)
getattr_is_blocking(task) ==
    IF task.has_is_blocking THEN task.is_blocking ELSE TRUE

\* getattr(task, 'timeout', DEFAULT_TIMEOUT)
getattr_timeout(task) ==
    IF task.has_timeout THEN task.timeout ELSE DEFAULT_TIMEOUT

\* ExecutionRecord.objects.filter(task_id=tid, end_time=None), as row numbers.
OpenRecords(r, tid) ==
    {i \in DOMAIN r : r[i].task_id = tid /\ r[i].end_time = NULL}

\* The newest row of the task whether open or closed: the query without its
\* end_time=None filter.
NewestOfTask(r, tid) ==
    {i \in DOMAIN r :
        /\ r[i].task_id = tid
        /\ \A j \in DOMAIN r : r[j].task_id = tid => r[j].start_time <= r[i].start_time}

\* .order_by('-start_time')[0]: a row with the greatest start_time. Rows with
\* equal start_time come back in an order the store chooses.
NewestOpen(r, tid) ==
    {i \in OpenRecords(r, tid) :
        \A j \in OpenRecords(r, tid) : r[j].start_time <= r[i].start_time}

\* The rows of a set in ascending order, as a sequence.
RECURSIVE SeqOfSet(_)
SeqOfSet(S) ==
    IF S = {} THEN <<>>
    ELSE LET m == CHOOSE x \in S : \A y \in S : x <= y
         IN  <<m>> \o SeqOfSet(S \ {m})

\* ------------------------------------------------------------ complete_task
\* extra.get('level', logging.ERROR) != logging.ERROR, or True without extra.
completed_successfully(extra) ==
    IF extra.given
    THEN (IF extra.has_level THEN extra.level ELSE ERROR) # ERROR
    ELSE TRUE

\* complete_task(task, extra) at clock t: the states it can end in.
\* self.logger.log(**extra) raises TypeError for a dict with no 'level';
\* [0] on an empty query raises IndexError.
complete_task(st, task, extra, t) ==
    IF extra.given /\ ~extra.has_level THEN {Raise(st, "TypeError")}
    ELSE IF OpenRecords(st.recs, task.task_id) = {} THEN {Raise(st, "IndexError")}
    ELSE {[st EXCEPT !.recs[i].end_time = t,
                     !.recs[i].completed_successfully =
                         IF completed_successfully(extra) THEN 1 ELSE 0] :
            i \in NewestOpen(st.recs, task.task_id)}

\* ------------------------------------------------------------ check_timeout
\* The extra check_timeout builds for a record that timed out.
TimeoutExtra == LevelExtra(ERROR)

\* One iteration of check_timeout's loop, for the row `i` of the query made
\* when the loop started (`r0` is the table as that query saw it).
check_timeout_body(st, r0, i, task, t) ==
    IF st.err # "none" THEN {st}
    ELSE IF t - r0[i].start_time > getattr_timeout(task)
         THEN complete_task(st, task, TimeoutExtra, t)
         ELSE {st}

RECURSIVE check_timeout_loop(_, _, _, _, _, _)
check_timeout_loop(sts, r0, snapshot, k, task, t) ==
    IF k > Len(snapshot) THEN sts
    ELSE check_timeout_loop(
             UNION {check_timeout_body(s, r0, snapshot[k], task, t) : s \in sts},
             r0, snapshot, k + 1, task, t)

\* check_timeout(task) at clock t.
check_timeout(st, task, t) ==
    IF st.err # "none" THEN {st}
    ELSE check_timeout_loop({st}, st.recs,
                            SeqOfSet(OpenRecords(st.recs, task.task_id)), 1, task, t)

\* ----------------------------------------------------------- check_timeouts
RECURSIVE check_timeouts_loop(_, _, _, _, _)
check_timeouts_loop(sts, reg, torder, k, t) ==
    IF k > Len(torder) THEN sts
    ELSE check_timeouts_loop(
             UNION {check_timeout(st, reg[torder[k]].task, t) : st \in sts},
             reg, torder, k + 1, t)

\* check_timeouts() at clock t.
check_timeouts(st, reg, torder, t) == check_timeouts_loop({st}, reg, torder, 1, t)

\* ----------------------------------------------------------------- run_task
\* ExecutionRecord.objects.create(task_id, schedule_id, start_time, end_time=None)
NewRecord(task, schedule, t) ==
    [task_id |-> task.task_id, schedule_id |-> schedule.hash,
     start_time |-> t, end_time |-> NULL, completed_successfully |-> NULL]

\* The extra run_task builds when task.run() raised.
ExceptionExtra == LevelExtra(ERROR)

\* How a call of task.run() (line 116) ends:
\*   returns             it returns;
\*   raises              it raises an Exception whose str() is a byte string;
\*   raises_unprintable  it raises an Exception whose str() raises in its turn
\*                       (a unicode message with a non-ASCII character gives
\*                       UnicodeEncodeError): line 120 raises inside the
\*                       except clause;
\*   raises_base         it raises a BaseException that is no Exception
\*                       (KeyboardInterrupt, SystemExit), which line 117 does
\*                       not catch.
Endings == {"returns", "raises", "raises_unprintable", "raises_base"}

\* Lines 108-112: the record of the execution is created at clock reading t.
run_task_create(r, task, schedule, t) == Append(r, NewRecord(task, schedule, t))

\* Lines 117-127: what run_task does once task.run() has ended, at the clock
\* reading t of that moment. The record is looked up again by complete_task.
run_task_finish(st, task, ending, t) ==
    CASE ending = "raises_base" -> {Raise(st, "BaseException")}
      [] ending = "raises_unprintable" -> {Raise(st, "UnicodeEncodeError")}
      [] ending = "raises" -> complete_task(st, task, ExceptionExtra, t)
      [] ending = "returns" ->
            IF getattr_is_blocking(task) THEN complete_task(st, task, NoExtra, t)
            ELSE {st}

\* ------------------------------------------------------------ schedule_task
\* self._tasks[task_id].task = task; self._tasks[task_id].schedules.add(schedule)
\* (the defaultdict makes the entry, with an empty schedule set, when absent).
schedule_task(reg, task, schedule) ==
    LET tid == task.task_id
        old == IF tid \in DOMAIN reg THEN reg[tid].schedules ELSE {}
    IN  [x \in DOMAIN reg \cup {tid} |->
            IF x = tid THEN [task |-> task, schedules |-> old \cup {schedule}]
            ELSE reg[x]]

\* The key Django's Signal.connect files a receiver under: (dispatch_uid, sender).
ReceiverKey(task) == [uid |-> task.task_id, sender |-> task.cls]

\* The connected keys.
Keys(s) == {s[k] : k \in DOMAIN s}

\* task_complete.connect(receiver, sender=task.__class__, dispatch_uid=task_id)
\* for a task that is not blocking; a key already connected is left as it is.
connect_receiver(s, task) ==
    IF ~getattr_is_blocking(task) /\ ReceiverKey(task) \notin Keys(s)
    THEN Append(s, ReceiverKey(task))
    ELSE s

\* ------------------------------------------------------- get_task_info_list
\* The tasks argument: None, or a list of task objects.
NoTasks == [given |-> FALSE, list |-> <<>>]
TaskList(l) == [given |-> TRUE, list |-> l]

\* The ids of a list that are not registered.
Unregistered(reg, l) == {k \in DOMAIN l : l[k].task_id \notin DOMAIN reg}

\* A lookup that passes over the tasks that are not registered instead of
\* raising.
get_task_info_list_skip(reg, arg, torder) ==
    IF ~arg.given
    THEN [err |-> "none", reg |-> reg,
          infos |-> [k \in DOMAIN torder |-> reg[torder[k]]]]
    ELSE LET known == SelectSeq(arg.list, LAMBDA x : x.task_id \in DOMAIN reg)
         IN  [err |-> "none", reg |-> reg,
              infos |-> [k \in DOMAIN known |-> reg[known[k].task_id]]]

\* A lookup that takes no notice of its argument and lists the whole registry.
get_task_info_list_all(reg, arg, torder) ==
    [err |-> "none", reg |-> reg, infos |-> [k \in DOMAIN torder |-> reg[torder[k]]]]

\* get_task_info_list(tasks): the TaskInfo list, or the exception it raises,
\* and the registry as the lookups leave it.
\* `torder` is the order in which self._tasks.values() lists the registry.
\* Membership is tested with `in`, which makes no entry in the defaultdict,
\* and the list is complete before the caller uses any of it.
get_task_info_list(reg, arg, torder) ==
    IF ~arg.given
    THEN [err |-> "none", reg |-> reg,
          infos |-> [k \in DOMAIN torder |-> reg[torder[k]]]]
    ELSE IF Unregistered(reg, arg.list) # {}
         THEN [err |-> "NotRegistered", reg |-> reg, infos |-> <<>>]
         ELSE [err |-> "none", reg |-> reg,
               infos |-> [k \in DOMAIN arg.list |-> reg[arg.list[k].task_id]]]


\* ------------------------------------------------------ run_scheduled_tasks
\* The members of a set in the order `sorder` lists them.
RECURSIVE InOrder(_, _)
InOrder(sorder, S) ==
    IF sorder = <<>> THEN <<>>
    ELSE (IF Head(sorder) \in S THEN <<Head(sorder)>> ELSE <<>>)
         \o InOrder(Tail(sorder), S)

\* A call in progress. A call is looked at only while it is inside code of
\* the application: schedule.get_next_run_time(task) of line 62 (pc "due") or
\* task.run() of line 116 (pc "running"); whatever the backend does between
\* two such points is one step. The fields are the locals of the call:
\*   rest      the ids of the TaskInfos the loop of line 53 has not reached;
\*   tid, task the TaskInfo of the current iteration and its task (line 54);
\*   size0, visited  the iterator of line 61 over the live schedule set: the
\*             size of the set when the iterator was made, and the schedules
\*             it has yielded;
\*   schedule  the schedule of the current iteration of line 61;
\*   row       the record made by line 108.
\* and three more are kept for the properties: `quiet` (no other operation
\* has run since the call began), `base` (the length of the table when it
\* began) and `dues` (the pairs it found due, in order).
NoTid == "none"
PassFrame(self, ids, base) ==
    [kind |-> "pass", self |-> self, pc |-> "next", rest |-> ids, tid |-> NoTid,
     task |-> Unbound, size0 |-> 0, visited |-> {}, schedule |-> Sched1,
     row |-> 0, quiet |-> TRUE, base |-> base, dues |-> <<>>]
RunFrame(self, task, schedule, row) ==
    [kind |-> "run_task", self |-> self, pc |-> "running", rest |-> <<>>,
     tid |-> task.task_id, task |-> task, size0 |-> 0, visited |-> {},
     schedule |-> schedule, row |-> row, quiet |-> TRUE, base |-> row - 1,
     dues |-> <<>>]

\* What a step of a call gives: the threaded state, the call's locals, and
\* whether the call has ended (returned, or raised st.err).
Outcome(st, f, done) == [st |-> st, frame |-> f, done |-> done]

\* The pass from the head of the loop of line 61 to the next call of
\* get_next_run_time, at clock reading t. next() of a set iterator raises
\* RuntimeError when the set is not of the size it had when the iterator was
\* made; an exhausted iterator ends the iteration of line 53, whose next one
\* reads info.task (line 54; AttributeError for a TaskInfo that has none),
\* calls check_timeout (line 58) and makes the iterator of line 61. `reg` is
\* the registry as it is now: the TaskInfos of the list are the objects the
\* registry holds.
RECURSIVE advance(_, _, _, _, _)
advance(st, reg, f, sorder, t) ==
    IF st.err # "none" THEN {Outcome(st, f, TRUE)}
    ELSE IF f.tid # NoTid /\ Cardinality(reg[f.tid].schedules) # f.size0
    THEN {Outcome(Raise(st, "RuntimeError"), f, TRUE)}
    ELSE IF f.tid # NoTid /\ reg[f.tid].schedules \ f.visited # {}
    THEN LET s == Head(InOrder(sorder, reg[f.tid].schedules \ f.visited))
         IN  {Outcome(st, [f EXCEPT !.pc = "due", !.schedule = s,
                                    !.visited = @ \cup {s}], FALSE)}
    ELSE IF f.rest = <<>> THEN {Outcome(st, f, TRUE)}
    ELSE LET tid == Head(f.rest)
             task == reg[tid].task
             g == [f EXCEPT !.rest = Tail(@), !.tid = tid, !.task = task,
                            !.size0 = Cardinality(reg[tid].schedules),
                            !.visited = {}]
         IN  IF task = Unbound THEN {Outcome(Raise(st, "AttributeError"), f, TRUE)}
             ELSE UNION {advance(c, reg, g, sorder, t) :
                            c \in check_timeout(st, task, t)}

\* The key under which the registry holds the TaskInfo `info`.
KeyOf(reg, info) == CHOOSE x \in DOMAIN reg : reg[x] = info

\* Lines 52-62: run_scheduled_tasks(tasks) from its entry to its first call of
\* get_next_run_time.
pass_begin(st, reg, arg, torder, sorder, self, t) ==
    LET got == get_task_info_list(reg, arg, torder)
        ids == [k \in DOMAIN got.infos |-> KeyOf(got.reg, got.infos[k])]
    IN  IF got.err # "none"
        THEN {Outcome(Raise(st, got.err), PassFrame(self, <<>>, Len(st.recs)), TRUE)}
        ELSE advance(st, got.reg, PassFrame(self, ids, Len(st.recs)), sorder, t)

\* What a call of schedule.get_next_run_time(task) does: it raises, or it
\* returns the time `next`.
NextRunTimes == 0..(MaxTime + 1)
DueOutcomes == [raises : BOOLEAN, next : NextRunTimes]

\* A comparison that leaves out the schedule whose time is the present one.
is_due_strict(next, t) == next < t

\* Line 62: schedule.get_next_run_time(task) <= datetime.now()
is_due(next, t) == next <= t

\* Lines 62-64 and 108-116: get_next_run_time has ended at clock reading t.
\* A pair that is due is run: its record is made and task.run() is called.
pass_due(st, reg, f, sorder, out, t) ==
    IF out.raises THEN {Outcome(Raise(st, "ScheduleError"), f, TRUE)}
    ELSE LET g == [f EXCEPT !.dues = IF out.next <= t
                                     THEN Append(@, <<f.tid, f.schedule.hash>>)
                                     ELSE @]
         IN  IF is_due(out.next, t)
             THEN {Outcome([st EXCEPT !.recs = run_task_create(@, f.task, f.schedule, t)],
                           [g EXCEPT !.pc = "running", !.row = Len(st.recs) + 1],
                           FALSE)}
             ELSE advance(st, reg, g, sorder, t)

\* Lines 117-127 and back to line 61: task.run() has ended at clock reading t.
\* An exception that leaves run_task leaves the pass.
pass_run_end(st, reg, f, sorder, ending, t) ==
    UNION {advance(s2, reg, f, sorder, t) : s2 \in run_task_finish(st, f.task, ending, t)}

\* Lines 117-127 of a run_task called by the application.
run_task_end(st, f, ending, t) ==
    {Outcome(s2, f, TRUE) : s2 \in run_task_finish(st, f.task, ending, t)}

\* ------------------------------------------------- the completion receiver
\* The receivers task_complete.send(sender=task.__class__, ...) calls: the
\* connected ones that are still alive.
Receivers(s, task) == {k \in DOMAIN s : s[k].sender = task.cls}

\* task_complete.disconnect(receiver, sender, dispatch_uid=task.task_id): the
\* first receiver filed under the key is removed.
disconnect_receiver(s, task) ==
    LET hits == {k \in DOMAIN s : s[k] = ReceiverKey(task)}
    IN  IF hits = {} THEN s
        ELSE LET h == CHOOSE x \in hits : \A y \in hits : x <= y
             IN  SubSeq(s, 1, h - 1) \o SubSeq(s, h + 1, Len(s))

\* The keyword arguments a signal calls each receiver with:
\* receiver(signal=..., sender=..., task=..., extra=...).
SendKeywords == {"signal", "sender", "task", "extra"}

\* def receiver(task, extra=None): a call by keywords binds when it names the
\* required parameter task and no parameter other than task and extra;
\* otherwise it raises TypeError before the body runs.
receiver_binds(keywords) ==
    "task" \in keywords /\ keywords \subseteq {"task", "extra"}

\* The body of the receiver, on the pair of the threaded state and the
\* receiver list: disconnect the key, then complete_task(task, extra).
receiver_body(p, task, extra) ==
    {[st |-> st2, subs |-> disconnect_receiver(p.subs, task)] :
        st2 \in complete_task(p.st, task, extra, p.st.clock)}

\* One call of the receiver by the signal.
receiver(p, task, extra) ==
    IF p.st.err # "none" THEN {p}
    ELSE IF ~receiver_binds(SendKeywords) THEN {[p EXCEPT !.st = Raise(@, "TypeError")]}
    ELSE receiver_body(p, task, extra)

\* for receiver in live receivers of the sender: receiver(...). An exception
\* ends the send.
RECURSIVE send_loop(_, _, _, _)
send_loop(ps, task, extra, n) ==
    IF n = 0 THEN ps
    ELSE send_loop(UNION {receiver(p, task, extra) : p \in ps}, task, extra, n - 1)

\* task_complete.send(sender=task.__class__, task=task, extra=extra)
send(st, s, task, extra) ==
    send_loop({[st |-> st, subs |-> s]}, task, extra, Cardinality(Receivers(s, task)))

\* The receiver list once the garbage collector has freed the closure filed
\* at position k: connect holds it by a weak reference and schedule_task keeps
\* no other.
collect_receiver(s, k) == SubSeq(s, 1, k - 1) \o SubSeq(s, k + 1, Len(s))


\* ---------------------------------------------------------------- the state
NoLast ==
    [op |-> "none", err |-> "none"]

\* No receiver and no check_timeout is in the middle of its statements.
NoRace ==
    [npc |-> "idle", nrow |-> 0, nrec |-> <<>>, nerr |-> "none",
     tpc |-> "idle", snap |-> <<>>, r0 |-> <<>>, k |-> 0, trow |-> 0, trec |-> <<>>,
     terr |-> "none", extra |-> NoExtra, saves |-> <<>>]

\* No schedule_task call is between two of its statements.
NoCall == [pc |-> "idle", task |-> TaskA, schedule |-> Sched1]

\* The backend instances of the process. Where the application has one, it
\* is backend1.
Backends == {"backend1", "backend2"}

Init ==
    /\ tasks = [x \in {} |-> x]
    /\ subs = <<>>
    /\ recs = <<>>
    /\ now = 0
    /\ last = NoLast
    /\ race = NoRace
    /\ inflight = NoCall
    /\ watch = 0
    /\ calls = EmptyBag

\* The order in which self._tasks.values() lists the registry is the order of
\* the dictionary's hash table: it depends on the keys' hashes, on the
\* interpreter build and on the history of insertions (CPython 2.7 on a 64-bit
\* build lists the keys 'a', 'b', 'c' as a, c, b). No code of the program
\* fixes it, so every order of the keys is one the call may give.
Perms(S) ==
    {p \in [1..Cardinality(S) -> S] : \A j, k \in 1..Cardinality(S) : p[j] = p[k] => j = k}
ValuesOrders(reg) == Perms(DOMAIN reg)
\* The order in which a schedule set is iterated: the schedules' hashes are
\* small integers, which a set keeps in increasing order.
ScheduleOrder == <<Sched1, Sched2>>

\* The schedule_task calls the application makes.
ScheduleCalls ==
    {<<TaskA, Sched1>>, <<TaskB, Sched1>>, <<TaskB, Sched2>>}

\* The lists run_scheduled_tasks is called with: a subset of the tasks, each
\* named once.
TaskLists ==
    {l \in UNION {[1..n -> TaskObjects] : n \in 1..MaxList} :
        \A j, k \in DOMAIN l : l[j].task_id = l[k].task_id => j = k}
TaskArgs == {NoTasks} \cup {TaskList(l) : l \in TaskLists}

\* The task objects the registry holds: the ones the application calls the
\* backend with.
Registered(reg) == {reg[x].task : x \in DOMAIN reg}

\* A call once another operation has run: what is kept for the properties of
\* undisturbed calls is dropped.
Calm(f) == [f EXCEPT !.quiet = FALSE, !.base = 0, !.dues = <<>>, !.row = 0]

\* The calls in progress once another operation has run.
Disturbed(cs) == BagOfAll(Calm, cs)

\* The calls in progress once the call `f` has made a step that gave `o`.
Stepped(cs, f, o) ==
    LET others == Disturbed(cs (-) SetToBag({f}))
    IN  IF o.done THEN others
        ELSE others (+) SetToBag({IF o.frame.quiet THEN o.frame ELSE Calm(o.frame)})

\* The call `f` makes a step that gives `o`.
Step(f, o) ==
    /\ Len(o.st.recs) <= MaxRecords
    /\ recs' = o.st.recs
    /\ calls' = Stepped(calls, f, o)
    /\ last' = NoLast

\* Time passes, between two operations or while calls are inside task.run()
\* or get_next_run_time.
Tick ==
    /\ now < MaxTime
    /\ now' = now + 1
    /\ last' = NoLast
    /\ UNCHANGED <<tasks, subs, recs, race, inflight, watch, calls>>

\* backend.schedule_task(task, schedule)
ScheduleTask(cs) ==
    \E c \in cs :
      LET task == c[1]
          schedule == c[2]
      IN
        /\ tasks' = schedule_task(tasks, task, schedule)
        /\ subs' = connect_receiver(subs, task)
        /\ last' = NoLast
        /\ calls' = Disturbed(calls)
        /\ UNCHANGED <<recs, now, race, inflight, watch>>

\* backend.run_scheduled_tasks(tasks) is called: it runs up to its first call
\* of get_next_run_time, or to its end when it makes none.
PassBegin(args) ==
    /\ BagCardinality(calls) < MaxCalls
    /\ \E arg \in args :
         \E torder \in ValuesOrders(tasks) :
         \E o \in pass_begin(St(recs), tasks, arg, torder, ScheduleOrder,
                             "backend1", now) :
            /\ recs' = o.st.recs
            /\ calls' = IF o.done THEN Disturbed(calls)
                        ELSE Disturbed(calls) (+) SetToBag({o.frame})
            /\ last' = IF o.st.err # "none"
                       THEN [op |-> "run_scheduled_tasks", err |-> o.st.err]
                       ELSE NoLast
            /\ UNCHANGED <<tasks, subs, now, race, inflight, watch>>

\* A get_next_run_time called by the pass `f` ends, `reg` being the registry
\* of that call's backend.
PassDueOf(f, reg) ==
    /\ f.kind = "pass" /\ f.pc = "due"
    /\ \E out \in DueOutcomes :
         \E o \in pass_due(St(recs), reg, f, ScheduleOrder, out, now) :
            Step(f, o)
    /\ UNCHANGED <<tasks, subs, now, race, inflight, watch>>

\* A task.run() called by the pass `f` ends.
PassRunEndOf(f, reg) ==
    /\ f.kind = "pass" /\ f.pc = "running"
    /\ \E ending \in Endings :
         \E o \in pass_run_end(St(recs), reg, f, ScheduleOrder, ending, now) :
            Step(f, o)
    /\ UNCHANGED <<tasks, subs, now, race, inflight, watch>>

PassDue == \E f \in BagToSet(calls) : PassDueOf(f, tasks)
PassRunEnd == \E f \in BagToSet(calls) : PassRunEndOf(f, tasks)

\* backend.run_task(task, schedule) is called by the application: it makes
\* its record and calls task.run().
RunTaskBegin ==
    /\ BagCardinality(calls) < MaxCalls
    /\ Len(recs) < MaxRecords
    /\ \E task \in Registered(tasks) :
         \E schedule \in tasks[task.task_id].schedules :
            /\ recs' = run_task_create(recs, task, schedule, now)
            /\ calls' = Disturbed(calls) (+)
                         SetToBag({RunFrame("backend1", task, schedule, Len(recs) + 1)})
    /\ last' = NoLast
    /\ UNCHANGED <<tasks, subs, now, race, inflight, watch>>

\* The task.run() of a run_task called by the application ends.
RunTaskEnd ==
    /\ \E f \in BagToSet(calls) :
         /\ f.kind = "run_task"
         /\ \E ending \in Endings :
              \E o \in run_task_end(St(recs), f, ending, now) : Step(f, o)
    /\ UNCHANGED <<tasks, subs, now, race, inflight, watch>>

\* backend.complete_task(task, extra), called directly
CompleteTask ==
    \E task \in Registered(tasks), extra \in Extras :
        \E st \in complete_task(St(recs), task, extra, now) :
            /\ recs' = st.recs
            /\ last' = NoLast
            /\ calls' = Disturbed(calls)
            /\ UNCHANGED <<tasks, subs, now, race, inflight, watch>>

\* backend.check_timeout(task), called directly
CheckTimeout ==
    \E task \in Registered(tasks) :
        \E st \in check_timeout(St(recs), task, now) :
            /\ recs' = st.recs
            /\ last' = NoLast
            /\ calls' = Disturbed(calls)
            /\ UNCHANGED <<tasks, subs, now, race, inflight, watch>>

\* backend.check_timeouts()
CheckTimeouts ==
    \E torder \in ValuesOrders(tasks) :
        \E st \in check_timeouts(St(recs), tasks, torder, now) :
            /\ recs' = st.recs
            /\ last' = NoLast
            /\ calls' = Disturbed(calls)
            /\ UNCHANGED <<tasks, subs, now, race, inflight, watch>>

\* A completion notification: task_complete.send(sender=task.__class__,
\* task=task, extra=extra), for any task object, registered or not.
Notify ==
    \E task \in AnyTask, extra \in Extras :
        \E p \in send(St(recs), subs, task, extra) :
            /\ recs' = p.st.recs
            /\ subs' = p.subs
            /\ last' = IF p.st.err # "none" THEN [op |-> "notify", err |-> p.st.err]
                       ELSE NoLast
            /\ calls' = Disturbed(calls)
            /\ UNCHANGED <<tasks, now, race, inflight, watch>>

\* The garbage collector frees a receiver closure.
CollectReceiver ==
    \E k \in DOMAIN subs :
        /\ subs' = collect_receiver(subs, k)
        /\ last' = NoLast
        /\ UNCHANGED <<tasks, recs, now, race, inflight, watch, calls>>

\* Every operation may be called while others are in progress: by the code
\* of a task or a schedule, or by another thread.
Next ==
    \/ Tick
    \/ ScheduleTask({c \in ScheduleCalls : c[2] = Sched1})
    \/ PassBegin(TaskArgs)
    \/ PassDue
    \/ PassRunEnd
    \/ RunTaskBegin
    \/ RunTaskEnd
    \/ CompleteTask
    \/ CheckTimeout
    \/ CheckTimeouts
    \/ Notify
    \/ CollectReceiver

\* The backend with a blocking task (a) and a non-blocking task (b), each
\* scheduled with one schedule.
Spec == Init /\ [][Next]_vars

\* The backend of an application whose only task is the non-blocking task b,
\* scheduled with one or two schedules.
NextOneTask ==
    \/ Tick
    \/ ScheduleTask({c \in ScheduleCalls : c[1] = TaskB})
    \/ PassBegin({NoTasks})
    \/ PassDue
    \/ PassRunEnd
    \/ RunTaskBegin
    \/ RunTaskEnd
    \/ CompleteTask
    \/ CheckTimeout
    \/ CheckTimeouts
    \/ Notify
    \/ CollectReceiver

SpecOneTask == Init /\ [][NextOneTask]_vars

\* ---------------------------------------------- a receiver racing a timeout
\* A completion notification for task b (task_complete.send) and
\* check_timeout(b) run concurrently, one access to the record store at a time.
\* The race starts with b registered, its receiver alive or already collected,
\* and one or two of its executions open.
RaceRegistry == schedule_task(schedule_task([x \in {} |-> x], TaskB, Sched1), TaskB, Sched2)
RaceTables ==
    {<<NewRecord(TaskB, Sched1, s)>> : s \in 0..MaxTime}
    \cup {<<NewRecord(TaskB, Sched1, s1), NewRecord(TaskB, Sched2, s2)>> :
             s1 \in 0..MaxTime, s2 \in 0..MaxTime}

InitRace ==
    /\ tasks = RaceRegistry
    /\ subs \in {<<>>, connect_receiver(<<>>, TaskB)}
    /\ recs \in RaceTables
    /\ now \in 0..MaxTime
    /\ \A i \in DOMAIN recs : recs[i].start_time <= now
    /\ \A i, j \in DOMAIN recs : i < j => recs[i].start_time <= recs[j].start_time
    /\ last = NoLast
    /\ \E extra \in {NoExtra, LevelExtra(ERROR)} :
          race = [NoRace EXCEPT !.npc = "send", !.tpc = "query_open", !.extra = extra,
                                !.saves = [i \in DOMAIN recs |-> 0]]
    /\ inflight = NoCall
    /\ watch = 0
    /\ calls = EmptyBag

\* The notification: the signal calls the live receivers of b's class. The
\* call of the receiver raises before its body reaches the record store.
NSend ==
    /\ race.npc = "send"
    /\ \E p \in send(St(recs), subs, TaskB, race.extra) :
          /\ recs' = p.st.recs
          /\ subs' = p.subs
          /\ race' = [race EXCEPT !.npc = "done", !.nerr = p.st.err,
                                  !.saves = [i \in DOMAIN recs |->
                                                IF p.st.recs[i] # recs[i]
                                                THEN @[i] + 1 ELSE @[i]]]
    /\ UNCHANGED <<tasks, now, last, inflight, watch, calls>>

\* check_timeout: the query of the open records of the task (line 80).
TQueryOpen ==
    /\ race.tpc = "query_open"
    /\ race' = [race EXCEPT !.tpc = "loop", !.r0 = recs, !.k = 1,
                             !.snap = SeqOfSet(OpenRecords(recs, TaskB.task_id))]
    /\ UNCHANGED <<tasks, subs, recs, now, last, inflight, watch, calls>>

\* check_timeout: one record of its loop (lines 81-83), and for a record that
\* timed out complete_task up to its query (lines 141-147).
TIter ==
    /\ race.tpc = "loop"
    /\ IF race.k > Len(race.snap)
       THEN race' = [race EXCEPT !.tpc = "done"]
       ELSE IF now - race.r0[race.snap[race.k]].start_time > getattr_timeout(TaskB)
            THEN IF OpenRecords(recs, TaskB.task_id) = {}
                 THEN race' = [race EXCEPT !.tpc = "done", !.terr = "IndexError"]
                 ELSE \E i \in NewestOpen(recs, TaskB.task_id) :
                          race' = [race EXCEPT !.tpc = "save", !.trow = i, !.trec = recs[i]]
            ELSE race' = [race EXCEPT !.k = @ + 1]
    /\ UNCHANGED <<tasks, subs, recs, now, last, inflight, watch, calls>>

\* check_timeout's complete_task: record.save() (lines 148-150).
TSave ==
    /\ race.tpc = "save"
    /\ recs' = [recs EXCEPT ![race.trow] =
                   [race.trec EXCEPT !.end_time = now,
                                     !.completed_successfully =
                                         IF completed_successfully(TimeoutExtra) THEN 1 ELSE 0]]
    /\ race' = [race EXCEPT !.tpc = "loop", !.k = @ + 1, !.saves[race.trow] = @ + 1]
    /\ UNCHANGED <<tasks, subs, now, last, inflight, watch, calls>>

\* Time passes while the two run.
RaceTick ==
    /\ now < MaxTime
    /\ race.npc # "done" \/ race.tpc # "done"
    /\ now' = now + 1
    /\ UNCHANGED <<tasks, subs, recs, last, race, inflight, watch, calls>>

NextRace ==
    \/ NSend
    \/ TQueryOpen
    \/ TIter
    \/ TSave
    \/ RaceTick

SpecRace == InitRace /\ [][NextRace]_vars

\* ------------------------------------------ registrations under one task id
\* An application that registers a blocking task and, under one task_id, two
\* non-blocking instances of one class, a non-blocking task of another class
\* and a blocking instance; it runs them and receives completion
\* notifications.
RegistryCalls ==
    {<<TaskA, Sched1>>, <<TaskBX, Sched1>>, <<TaskBK, Sched1>>}
        \cup {<<t, s>> : t \in {TaskB, TaskB2}, s \in Schedules}

NextRegistry ==
    \/ ScheduleTask(RegistryCalls)
    \/ RunTaskBegin
    \/ RunTaskEnd
    \/ Notify
    \/ CollectReceiver

SpecRegistry == Init /\ [][NextRegistry]_vars

\* ------------------------------------- schedule_task, statement by statement
\* One thread runs schedule_task one statement at a time while another reads
\* the registry through scheduled_tasks.

\* scheduled_tasks: [info.task for info in self._tasks.values()] raises
\* AttributeError at an entry that has no task attribute.
scheduled_tasks_err(reg) ==
    IF \E x \in DOMAIN reg : reg[x].task = Unbound THEN "AttributeError" ELSE "none"

\* The thread enters schedule_task(task, schedule) (lines 33-34).
StepBegin ==
    /\ inflight.pc = "idle"
    /\ \E c \in ScheduleCalls :
          inflight' = [pc |-> "getitem", task |-> c[1], schedule |-> c[2]]
    /\ UNCHANGED <<tasks, subs, recs, now, last, race, watch, calls>>

\* Line 35, self._tasks[task_id]: the defaultdict makes the entry when the id
\* is not a key.
StepGetItem ==
    /\ inflight.pc = "getitem"
    /\ tasks' = IF inflight.task.task_id \in DOMAIN tasks THEN tasks
                ELSE [x \in DOMAIN tasks \cup {inflight.task.task_id} |->
                         IF x \in DOMAIN tasks THEN tasks[x] ELSE NewTaskInfo]
    /\ inflight' = [inflight EXCEPT !.pc = "setattr"]
    /\ UNCHANGED <<subs, recs, now, last, race, watch, calls>>

\* Line 35, .task = task
StepSetTask ==
    /\ inflight.pc = "setattr"
    /\ tasks' = [tasks EXCEPT ![inflight.task.task_id].task = inflight.task]
    /\ inflight' = [inflight EXCEPT !.pc = "add"]
    /\ UNCHANGED <<subs, recs, now, last, race, watch, calls>>

\* Line 36, self._tasks[task_id].schedules.add(schedule)
StepAddSchedule ==
    /\ inflight.pc = "add"
    /\ tasks' = [tasks EXCEPT ![inflight.task.task_id].schedules =
                    @ \cup {inflight.schedule}]
    /\ inflight' = [inflight EXCEPT !.pc = "connect"]
    /\ UNCHANGED <<subs, recs, now, last, race, watch, calls>>

\* Lines 44-45, and the call returns.
StepConnect ==
    /\ inflight.pc = "connect"
    /\ subs' = connect_receiver(subs, inflight.task)
    /\ inflight' = NoCall
    /\ last' = NoLast
    /\ UNCHANGED <<tasks, recs, now, race, watch, calls>>

\* Another thread reads backend.scheduled_tasks.
ReadScheduledTasks ==
    /\ last' = [NoLast EXCEPT !.op = "scheduled_tasks",
                              !.err = scheduled_tasks_err(tasks)]
    /\ UNCHANGED <<tasks, subs, recs, now, race, inflight, watch, calls>>

NextSteps ==
    \/ StepBegin
    \/ StepGetItem
    \/ StepSetTask
    \/ StepAddSchedule
    \/ StepConnect
    \/ ReadScheduledTasks

SpecSteps == Init /\ [][NextSteps]_vars

\* ------------------------------------------- several backend instances
\* Both instances are made by the application; it registers its tasks
\* through the first and drives passes through either.
\* Every instance keeps a registry of its own (a dictionary made in __init__).
TasksOwnerSelf(self) == self

\* self._tasks: no method assigns the attribute on the instance, so the lookup
\* finds the class attribute of BaseBackend, the one defaultdict of line 18.
TasksOwner(self) == "BaseBackend"

\* BaseBackend.scheduled_tasks
scheduled_tasks(reg) == {reg[x].task : x \in DOMAIN reg}

\* The tasks of this application: two non-blocking tasks, one schedule each.
SharedTaskObjects == {TaskB, TaskC}
SharedTaskIds == {t.task_id : t \in SharedTaskObjects}
SharedCalls == {<<TaskB, Sched1>>, <<TaskC, Sched1>>}
SharedTaskLists ==
    {l \in UNION {[1..n -> SharedTaskObjects] : n \in 1..(MaxList + 1)} :
        \A j, k \in DOMAIN l : l[j].task_id = l[k].task_id => j = k}
SharedTaskArgs == {NoTasks} \cup {TaskList(l) : l \in SharedTaskLists}

\* In this specification `tasks` holds a dictionary for the class and one for
\* each instance; the instances' own are never looked up and stay empty.
InitShared ==
    /\ tasks = [o \in {"BaseBackend"} \cup Backends |-> [x \in {} |-> x]]
    /\ subs = <<>>
    /\ recs = <<>>
    /\ now = 0
    /\ last = NoLast
    /\ race = NoRace
    /\ inflight = NoCall
    /\ watch = 0
    /\ calls = EmptyBag

\* The registry the instance `self` works on.
RegistryOf(self) == tasks[TasksOwner(self)]

\* backend1.schedule_task(task, schedule)
SharedScheduleTask ==
    \E c \in SharedCalls :
        /\ tasks' = [tasks EXCEPT ![TasksOwner("backend1")] =
                        schedule_task(@, c[1], c[2])]
        /\ subs' = connect_receiver(subs, c[1])
        /\ last' = NoLast
        /\ calls' = Disturbed(calls)
        /\ UNCHANGED <<recs, now, race, inflight, watch>>

\* self.run_scheduled_tasks(tasks) is called.
SharedPassBegin ==
    /\ BagCardinality(calls) < MaxCalls
    /\ \E self \in Backends, arg \in SharedTaskArgs :
         LET reg == RegistryOf(self) IN
         \E torder \in ValuesOrders(reg) :
         \E o \in pass_begin(St(recs), reg, arg, torder, ScheduleOrder,
                             self, now) :
            /\ recs' = o.st.recs
            /\ calls' = IF o.done THEN Disturbed(calls)
                        ELSE Disturbed(calls) (+) SetToBag({o.frame})
            /\ last' = IF o.st.err # "none"
                       THEN [op |-> "run_scheduled_tasks", err |-> o.st.err]
                       ELSE NoLast
            /\ UNCHANGED <<tasks, subs, now, race, inflight, watch>>

\* The passes in progress go on, each on the registry of its instance.
SharedPassDue == \E f \in BagToSet(calls) : PassDueOf(f, RegistryOf(f.self))
SharedPassRunEnd == \E f \in BagToSet(calls) : PassRunEndOf(f, RegistryOf(f.self))

\* self.check_timeouts()
SharedCheckTimeouts ==
    \E self \in Backends :
        LET reg == RegistryOf(self) IN
        \E torder \in ValuesOrders(reg) :
        \E st \in check_timeouts(St(recs), reg, torder, now) :
            /\ recs' = st.recs
            /\ last' = NoLast
            /\ calls' = Disturbed(calls)
            /\ UNCHANGED <<tasks, subs, now, race, inflight, watch>>

NextShared ==
    \/ Tick
    \/ SharedScheduleTask
    \/ SharedPassBegin
    \/ SharedPassDue
    \/ SharedPassRunEnd
    \/ SharedCheckTimeouts

SpecShared == InitShared /\ [][NextShared]_vars

\* ------------------------------------------------- passes without an end
\* Task b is driven for ever: the clock keeps moving and passes and timeout
\* sweeps keep coming. To keep the state finite the clock is read relative to
\* now: `now` stays at MaxTime and a start_time is MaxTime minus the age of
\* the record, an age above MaxTime being kept as MaxTime (such a record is
\* past the timeout of b whatever its real age). Closed rows are left out of
\* the table: both queries of the code filter on end_time being null. One
\* pass is in progress at a time.
InitLive ==
    /\ tasks = [x \in {} |-> x]
    /\ subs = <<>>
    /\ recs = <<>>
    /\ now = MaxTime
    /\ last = NoLast
    /\ race = NoRace
    /\ inflight = NoCall
    /\ watch = 0
    /\ calls = EmptyBag

\* The open rows of a table, in order of creation.
OpenRows(r) == SelectSeq(r, LAMBDA x : x.end_time = NULL)

\* Where the followed row is once the closed rows have left the table, 0 when
\* it was closed.
Followed(r, w) ==
    IF w = 0 \/ r[w].end_time # NULL THEN 0
    ELSE Cardinality({i \in 1..w : r[i].end_time = NULL})

\* The pass makes a step that gives `o`.
LiveStep(o) ==
    /\ Len(OpenRows(o.st.recs)) <= MaxRecords
    /\ recs' = OpenRows(o.st.recs)
    /\ watch' = Followed(o.st.recs, watch)
    /\ calls' = IF o.done THEN EmptyBag ELSE SetToBag({Calm(o.frame)})
    /\ UNCHANGED <<tasks, subs, now, last, race, inflight>>

\* One unit of time passes: every open execution is one unit older.
LiveTick ==
    /\ recs' = [i \in DOMAIN recs |->
                   [recs[i] EXCEPT !.start_time = IF @ > 0 THEN @ - 1 ELSE 0]]
    /\ UNCHANGED <<tasks, subs, now, last, race, inflight, watch, calls>>

\* The driver calls backend.run_scheduled_tasks().
LivePassBegin ==
    /\ calls = EmptyBag
    /\ \E torder \in ValuesOrders(tasks) :
       \E o \in pass_begin(St(recs), tasks, NoTasks, torder, ScheduleOrder,
                           "backend1", now) : LiveStep(o)

\* A get_next_run_time of the pass ends.
LivePassDue ==
    \E f \in BagToSet(calls) :
        /\ f.pc = "due"
        /\ \E out \in DueOutcomes :
             \E o \in pass_due(St(recs), tasks, f, ScheduleOrder, out, now) :
                LiveStep(o)

\* A task.run() of the pass ends.
LivePassRunEnd ==
    \E f \in BagToSet(calls) :
        /\ f.pc = "running"
        /\ \E ending \in Endings :
             \E o \in pass_run_end(St(recs), tasks, f, ScheduleOrder, ending, now) :
                LiveStep(o)

\* backend.check_timeouts()
LiveCheckTimeouts ==
    \E torder \in ValuesOrders(tasks) :
    \E st \in check_timeouts(St(recs), tasks, torder, now) :
        /\ recs' = OpenRows(st.recs)
        /\ watch' = Followed(st.recs, watch)
        /\ UNCHANGED <<tasks, subs, now, last, race, inflight, calls>>

\* An open execution is picked to be followed.
LiveWatch ==
    /\ watch = 0
    /\ \E i \in DOMAIN recs : watch' = i
    /\ UNCHANGED <<tasks, subs, recs, now, last, race, inflight, calls>>

\* backend.schedule_task(b, schedule)
LiveScheduleTask ==
    \E schedule \in Schedules :
        /\ tasks' = schedule_task(tasks, TaskB, schedule)
        /\ subs' = connect_receiver(subs, TaskB)
        /\ UNCHANGED <<recs, now, last, race, inflight, watch, calls>>

NextLive ==
    \/ LiveTick
    \/ LivePassBegin
    \/ LivePassDue
    \/ LivePassRunEnd
    \/ LiveCheckTimeouts
    \/ LiveWatch
    \/ LiveScheduleTask

\* Time keeps advancing, the driver keeps invoking run_scheduled_tasks, and
\* every call of get_next_run_time and of task.run() ends; check_timeouts may
\* be invoked as well, at any time.
SpecLive ==
    /\ InitLive
    /\ [][NextLive]_vars
    /\ WF_vars(LiveTick)
    /\ WF_vars(LivePassBegin)
    /\ WF_vars(LivePassDue)
    /\ WF_vars(LivePassRunEnd)

\* ------------------------------------------------------------- the claims
\* The members of a sequence.
Range(s) == {s[k] : k \in DOMAIN s}
\* The rows an operation marked as failed: failed after it, and not before.
NewlyFailed(pre, post) ==
    {i \in DOMAIN post : post[i].completed_successfully = 0
                         /\ (i \in DOMAIN pre => pre[i].completed_successfully # 0)}
\* The rows an operation closed.
NewlyClosed(pre, post) ==
    {i \in DOMAIN post : post[i].end_time # NULL
                         /\ (i \in DOMAIN pre => pre[i].end_time = NULL)}

\* The outcomes of the step the call `f` of the backend with registry `reg`
\* makes next, whatever the code of the task or of the schedule does.
NextOutcomes(f, reg) ==
    IF f.pc = "due"
    THEN UNION {pass_due(St(recs), reg, f, ScheduleOrder, out, now) : out \in DueOutcomes}
    ELSE IF f.kind = "pass"
    THEN UNION {pass_run_end(St(recs), reg, f, ScheduleOrder, e, now) : e \in Endings}
    ELSE UNION {run_task_end(St(recs), f, e, now) : e \in Endings}

\* C1: in one run_scheduled_tasks pass during which no other operation runs,
\* every (task, schedule) pair of the selected tasks that is due is run exactly
\* once and gets exactly one new execution record, with its task_id, its
\* schedule_id and a start_time read during the pass; a pair that is not due is
\* not run and gets no record; the pass adds no other record. Stated at every
\* point of such a pass: the records added so far are those of the pairs found
\* due so far, one each and in order, no pair was evaluated twice, and the
\* next step adds the record of the pair at hand if that is due and nothing
\* otherwise; a pass that returns has evaluated every pair.
C1_OneRunPerDuePair ==
    \A f \in BagToSet(calls) :
        LET pair == <<f.tid, f.schedule.hash>>
        IN  (f.kind = "pass" /\ f.quiet) =>
                /\ Len(recs) = f.base + Len(f.dues)
                /\ \A j \in DOMAIN f.dues :
                      /\ recs[f.base + j].task_id = f.dues[j][1]
                      /\ recs[f.base + j].schedule_id = f.dues[j][2]
                      /\ recs[f.base + j].start_time <= now
                /\ \A j, k \in DOMAIN f.dues : f.dues[j] = f.dues[k] => j = k
                /\ f.pc = "running" =>
                      /\ f.row = Len(recs)
                      /\ f.dues # <<>> /\ f.dues[Len(f.dues)] = pair
                /\ f.pc = "due" =>
                      /\ pair \notin Range(f.dues)
                      /\ \A out \in DueOutcomes :
                            \A o \in pass_due(St(recs), tasks, f, ScheduleOrder, out, now) :
                                IF ~out.raises /\ out.next <= now
                                THEN /\ ~o.done /\ o.frame.pc = "running"
                                     /\ o.st.recs = Append(recs, NewRecord(f.task, f.schedule, now))
                                ELSE o.st.recs = recs
                /\ \A o \in NextOutcomes(f, tasks) :
                      /\ Len(o.st.recs) = f.base + Len(o.frame.dues)
                      /\ (o.done /\ o.st.err = "none") =>
                            /\ o.frame.rest = <<>>
                            /\ o.frame.visited = tasks[o.frame.tid].schedules

\* C1, witness: a pass during which nothing else has run is inside the second
\* task.run() it called; the table holds the two records it made for task b,
\* one for each schedule, the second started after the first.
C1_Witness ==
    \E f \in BagToSet(calls) :
        /\ f.kind = "pass" /\ f.quiet /\ f.pc = "running"
        /\ f.dues = <<<<"b", Sched1.hash>>, <<"b", Sched2.hash>>>>
        /\ Len(recs) = 2
        /\ recs[1].start_time < recs[2].start_time

\* C2: when run_task(task, schedule) returns, no other operation having run
\* meanwhile, the record it created is closed if and only if the task is
\* blocking or task.run() raised, and when closed completed_successfully says
\* whether task.run() returned without raising. Stated for every call that is
\* inside task.run(), made by the application or by a pass, while no other
\* call is in progress and none has run since it began, and for every way
\* task.run() can end.
C2_CreatedRecordClosed ==
    \A f \in BagToSet(calls) :
        (f.pc = "running" /\ f.quiet /\ BagCardinality(calls) = 1) =>
            \A ending \in Endings :
                \A st \in run_task_finish(St(recs), f.task, ending, now) :
                    st.err = "none" =>
                        LET created == st.recs[f.row]
                        IN  /\ (created.end_time # NULL)
                                  <=> (getattr_is_blocking(f.task) \/ ending # "returns")
                            /\ created.end_time # NULL =>
                                  (created.completed_successfully = 1
                                      <=> ending = "returns")

\* C3: an exception of task.run() does not leave run_task or
\* run_scheduled_tasks: the call returns or goes on, and the raising run is
\* recorded as one failed execution. Stated for every call that is inside
\* task.run() and every Exception task.run() can raise.
C3_FailureSwallowed ==
    \A f \in BagToSet(calls) :
        f.pc = "running" =>
            \A ending \in {"raises", "raises_unprintable"} :
                /\ \A st \in run_task_finish(St(recs), f.task, ending, now) :
                      /\ st.err = "none"
                      /\ Cardinality(NewlyFailed(recs, st.recs)) = 1
                /\ f.kind = "pass" =>
                      \A o \in pass_run_end(St(recs), tasks, f, ScheduleOrder, ending, now) :
                          o.st.err = "none"

\* C4: complete_task(task, extra) marks the record it closes as successful if
\* and only if extra is absent or its level is below the error level; a level
\* at or above it (error, critical) marks the record as failed.
C4_SuccessBelowErrorLevel ==
    \A task \in Registered(tasks), extra \in Extras :
        \A st \in complete_task(St(recs), task, extra, now) :
            \A i \in NewlyClosed(recs, st.recs) :
                st.recs[i].completed_successfully = 1
                    <=> (~extra.given \/ (extra.has_level /\ extra.level < ERROR))

\* C5: check_timeout(task) closes no record whose elapsed time is at most the
\* task's effective timeout.
C5_NoEarlyTimeout ==
    \A task \in Registered(tasks) :
        \A st \in check_timeout(St(recs), task, now) :
            \A i \in OpenRecords(recs, task.task_id) :
                now - recs[i].start_time <= getattr_timeout(task)
                    => st.recs[i].end_time = NULL

\* C6: when check_timeout(task) returns, every record of the task that was open
\* and had exceeded the effective timeout is closed as failed.
C6_TimedOutClosed ==
    \A task \in Registered(tasks) :
        \A st \in check_timeout(St(recs), task, now) :
            \A i \in OpenRecords(recs, task.task_id) :
                now - recs[i].start_time > getattr_timeout(task)
                    => /\ st.recs[i].end_time # NULL
                       /\ st.recs[i].completed_successfully = 0

\* C7: under any sequence of whole operations, a record whose end_time is set
\* never changes again: it stays in the table with the same end_time and the
\* same completed_successfully, and does not become open.
C7_ClosedNeverChanges ==
    [][\A i \in DOMAIN recs :
          recs[i].end_time # NULL => (i \in DOMAIN recs' /\ recs'[i] = recs[i])]_vars

\* C7, witness: a record of task b that was closed as a success earlier is
\* older than b's timeout, and a timeout check or a failure that came later
\* has closed another record of b as failed.
C7_Witness ==
    \E i, j \in DOMAIN recs :
        /\ recs[i].task_id = TaskB.task_id /\ recs[j].task_id = TaskB.task_id
        /\ recs[i].completed_successfully = 1
        /\ recs[i].end_time < now
        /\ now - recs[i].start_time > getattr_timeout(TaskB)
        /\ recs[j].completed_successfully = 0
        /\ recs[j].end_time = now

\* C8: when a completion notification and a timeout check of one task run
\* concurrently, exactly one of them closes the open record: once both have
\* ended, the most recently started record that was open is closed and was
\* written once, and no record has been written twice.
C8_RecordWrittenOnce ==
    (race.npc = "done" /\ race.tpc = "done")
        => /\ \A i \in DOMAIN recs : race.saves[i] <= 1
           /\ \E i \in DOMAIN recs :
                 /\ \A j \in DOMAIN recs : recs[j].start_time <= recs[i].start_time
                 /\ recs[i].end_time # NULL
                 /\ race.saves[i] = 1

\* C9: complete_task for a task with no open execution record is a silent
\* no-op: it raises nothing and changes no record.
C9_NoOpenRecordIsNoOp ==
    \A task \in Registered(tasks), extra \in Extras \ {NoLevelExtra} :
        OpenRecords(recs, task.task_id) = {} =>
            \A st \in complete_task(St(recs), task, extra, now) :
                st.err = "none" /\ st.recs = recs

\* C10: in every reachable state every task id has at most one open execution
\* record.
C10_AtMostOneOpen ==
    \A tid \in TaskIds : Cardinality(OpenRecords(recs, tid)) <= 1

\* C11: get_task_info_list(tasks) and run_scheduled_tasks(tasks), called with a
\* list that names a task whose id is not registered, raise and change
\* nothing: the registry is as it was, no record is created or closed and no
\* task is run (the call ends before it reaches one), whatever registered
\* tasks come earlier in the list.
C11_UnregisteredChangesNothing ==
    \A self \in Backends, l \in SharedTaskLists :
      \A torder \in ValuesOrders(RegistryOf(self)) :
        LET reg == RegistryOf(self)
            got == get_task_info_list(reg, TaskList(l), torder)
        IN  Unregistered(reg, l) # {} =>
                /\ got.err # "none"
                /\ got.reg = reg
                /\ got.infos = <<>>
                /\ \A o \in pass_begin(St(recs), reg, TaskList(l), torder,
                                       ScheduleOrder, self, now) :
                      o.done /\ o.st.err # "none" /\ o.st.recs = recs

\* C11, witness: a pass has just raised for an unregistered task while task b
\* was registered with an open execution past its timeout, and c was not.
C11_Witness ==
    /\ last.op = "run_scheduled_tasks" /\ last.err = "NotRegistered"
    /\ DOMAIN RegistryOf("backend1") = {"b"}
    /\ calls = EmptyBag
    /\ \E i \in OpenRecords(recs, "b") : now - recs[i].start_time > getattr_timeout(TaskB)

\* C12: after schedule_task(t1, s1) followed by schedule_task(t2, s2), t1 and
\* t2 being distinct task objects with one task_id, the registry has one entry
\* for the id, its schedule set holds s1 and s2, and its task is still t1.
\* Stated for every state in which schedule_task(t1, s1) has made the entry.
C12_SecondRegistrationKeepsTask ==
    \A tid \in DOMAIN tasks :
        \A c2 \in RegistryCalls :
            (c2[1] # tasks[tid].task /\ c2[1].task_id = tid) =>
                LET reg == schedule_task(tasks, c2[1], c2[2])
                IN  /\ DOMAIN reg = DOMAIN tasks
                    /\ reg[tid].schedules = tasks[tid].schedules \cup {c2[2]}
                    /\ reg[tid].task = tasks[tid].task

\* The receivers connected under the dispatch_uid `tid`.
HandlersOf(s, tid) == {k \in DOMAIN s : s[k].uid = tid}

\* C13: schedule_task(task, schedule) called twice leaves the registry and the
\* connected receivers as calling it once does; whatever schedule_task calls
\* and completion notifications have happened, every task id has at most one
\* receiver connected, and the task registered under an id that has one is
\* not blocking.
C13_ScheduleTaskIdempotent ==
    /\ \A c \in RegistryCalls :
          /\ schedule_task(schedule_task(tasks, c[1], c[2]), c[1], c[2])
                = schedule_task(tasks, c[1], c[2])
          /\ connect_receiver(connect_receiver(subs, c[1]), c[1])
                = connect_receiver(subs, c[1])
    /\ \A tid \in TaskIds : Cardinality(HandlersOf(subs, tid)) <= 1
    /\ \A k \in DOMAIN subs :
          /\ subs[k].uid \in DOMAIN tasks
          /\ ~getattr_is_blocking(tasks[subs[k].uid].task)

\* The states a completion notification for `task` with `extra` can end in:
\* the live receivers connected for the task's class are called one after
\* another.
NotifyResults(task, extra) == {p.st : p \in send(St(recs), subs, task, extra)}

\* C14: whenever a completion notification without extra is published for a
\* registered non-blocking task that has an open record, the most recently
\* started open record of the task is closed as a success; for the first run
\* and for every later one, with no schedule_task call in between.
C14_NotificationClosesEveryRun ==
    \A task \in Registered(tasks) :
        (~getattr_is_blocking(task) /\ OpenRecords(recs, task.task_id) # {}) =>
            \A st \in NotifyResults(task, NoExtra) :
                /\ st.err = "none"
                /\ \E i \in NewestOpen(recs, task.task_id) :
                      /\ st.recs[i].end_time = now
                      /\ st.recs[i].completed_successfully = 1

\* C16: an execution record is closed only by an event of its own execution.
\* For every open record E2 of a registered non-blocking task: the timeout
\* monitor leaves E2 as it is while E2 itself has not exceeded the timeout,
\* whatever other executions of the task have; the end of task.run() of
\* another execution of the task (a call since whose beginning no other
\* operation has run) leaves E2 as it is; and when an execution E1
\* of the task was closed as failed after its timeout before E2 began, a
\* completion notification that E1's work publishes leaves E2 open and
\* unchanged. (The notification names the task only, so it is any
\* notification for the task.)
C16_ClosedOnlyByOwnEvent ==
    \A task \in Registered(tasks) :
        ~getattr_is_blocking(task) =>
            \A e2 \in OpenRecords(recs, task.task_id) :
                /\ now - recs[e2].start_time <= getattr_timeout(task) =>
                      \A st \in check_timeout(St(recs), task, now) :
                          st.recs[e2] = recs[e2]
                /\ \A f \in BagToSet(calls) :
                      (f.pc = "running" /\ f.quiet /\ f.tid = task.task_id /\ f.row # e2) =>
                          \A ending \in Endings :
                              \A st \in run_task_finish(St(recs), f.task, ending, now) :
                                  st.recs[e2] = recs[e2]
                /\ \A e1 \in DOMAIN recs :
                      (/\ recs[e1].task_id = task.task_id
                       /\ recs[e1].end_time # NULL
                       /\ recs[e1].completed_successfully = 0
                       /\ recs[e1].end_time - recs[e1].start_time > getattr_timeout(task)
                       /\ recs[e2].start_time >= recs[e1].end_time) =>
                          \A extra \in Extras :
                              \A st \in NotifyResults(task, extra) :
                                  st.recs[e2] = recs[e2]

\* C15: when time keeps advancing and passes (or timeout sweeps) keep being
\* invoked for a registered task, every open execution record of the task is
\* eventually closed, also when the task keeps becoming due and new open
\* records of it keep being created: an open record that is followed is
\* eventually closed.
C15_OpenEventuallyClosed == (watch # 0) ~> (watch = 0)

\* C17: in every reachable state, the states between two statements of a
\* schedule_task call that a concurrent reader can see included, every entry
\* of the registry has a task bound to it and a schedule set that is not empty.
C17_EntriesAlwaysComplete ==
    \A x \in DOMAIN tasks : tasks[x].task # Unbound /\ tasks[x].schedules # {}

\* C18: the registry is shared by all backend instances of the process. After
\* schedule_task(task, schedule) on one instance the task is in
\* scheduled_tasks of every other instance, run_scheduled_tasks() on any other
\* instance lists it, reaches it and runs it when it is due, and
\* check_timeouts() on any other instance closes its only open record once
\* that has timed out, in whatever order the registry lists its entries.
C18_RegistrySharedByInstances ==
    \A self \in Backends, other \in Backends, c \in SharedCalls :
      \A torder \in ValuesOrders(schedule_task(RegistryOf(self), c[1], c[2])) :
        LET after == [tasks EXCEPT ![TasksOwner(self)] = schedule_task(@, c[1], c[2])]
            reg == after[TasksOwner(other)]
            tid == c[1].task_id
        IN  /\ c[1] \in scheduled_tasks(reg)
            /\ \E k \in DOMAIN get_task_info_list(reg, NoTasks, torder).infos :
                  LET info == get_task_info_list(reg, NoTasks, torder).infos[k]
                  IN  info.task = c[1] /\ c[2] \in info.schedules
            /\ \A o \in pass_begin(St(recs), reg, NoTasks, torder, ScheduleOrder,
                                   other, now) :
                  /\ ~o.done
                  /\ tid \in {o.frame.tid} \cup Range(o.frame.rest)
                  /\ o.frame.tid = tid =>
                        /\ o.frame.task = c[1]
                        /\ o.frame.schedule \in reg[tid].schedules
                        /\ \A x \in pass_due(o.st, reg, o.frame, ScheduleOrder,
                                             [raises |-> FALSE, next |-> now], now) :
                              /\ ~x.done /\ x.frame.pc = "running"
                              /\ x.st.recs[x.frame.row] =
                                    NewRecord(c[1], o.frame.schedule, now)
            /\ \A st \in check_timeouts(St(recs), reg, torder, now) :
                  \A i \in OpenRecords(recs, tid) :
                      (OpenRecords(recs, tid) = {i}
                       /\ now - recs[i].start_time > getattr_timeout(c[1]))
                          => st.recs[i].end_time = now

\* C18, witness: tasks are registered through backend1 only, and a pass of
\* backend2 has made the record of task c and is inside its run.
C18_Witness ==
    /\ tasks["backend2"] = [x \in {} |-> x]
    /\ now > 0
    /\ \E f \in BagToSet(calls) :
          /\ f.kind = "pass" /\ f.self = "backend2" /\ f.quiet
          /\ f.pc = "running" /\ f.tid = "c"
          /\ recs[f.row].task_id = "c"
          /\ recs[f.row].start_time = now

\* The rows of tasks other than `ids` are as they were, and none was added.
OtherUnchanged(pre, post, ids) ==
    /\ Len(post) >= Len(pre)
    /\ \A i \in DOMAIN post :
          post[i].task_id \notin ids => (i \in DOMAIN pre /\ post[i] = pre[i])

\* C19: run_task(T, S), check_timeout(T), complete_task(T) and
\* run_scheduled_tasks(tasks) create, close and modify only records whose
\* task_id is that of T (of the tasks of the subset), and
\* run_scheduled_tasks(tasks) runs no task outside the subset. Stated for what
\* the operations do themselves, step by step: a pass that begins has only
\* tasks of the subset before it, and every step of a pass in progress touches
\* only records of the tasks it still has before it and goes on to one of them.
C19_OtherTasksUntouched ==
    LET reg == RegistryOf("backend1") IN
    /\ \A task \in scheduled_tasks(reg) :
          /\ \A schedule \in reg[task.task_id].schedules :
                OtherUnchanged(recs, run_task_create(recs, task, schedule, now),
                               {task.task_id})
          /\ \A ending \in Endings :
                \A st \in run_task_finish(St(recs), task, ending, now) :
                    OtherUnchanged(recs, st.recs, {task.task_id})
          /\ \A st \in check_timeout(St(recs), task, now) :
                OtherUnchanged(recs, st.recs, {task.task_id})
          /\ \A extra \in Extras :
                \A st \in complete_task(St(recs), task, extra, now) :
                    OtherUnchanged(recs, st.recs, {task.task_id})
    /\ \A l \in SharedTaskLists :
          Unregistered(reg, l) = {} =>
            \A torder \in ValuesOrders(reg) :
              \A o \in pass_begin(St(recs), reg, TaskList(l), torder,
                                  ScheduleOrder, "backend1", now) :
                  LET ids == {l[k].task_id : k \in DOMAIN l}
                  IN  /\ OtherUnchanged(recs, o.st.recs, ids)
                      /\ ~o.done =>
                            {o.frame.tid} \cup Range(o.frame.rest) \subseteq ids
    /\ \A f \in BagToSet(calls) :
          LET ids == {f.tid} \cup Range(f.rest)
          IN  /\ f.task.task_id = f.tid
              /\ \A o \in NextOutcomes(f, RegistryOf(f.self)) :
                    /\ OtherUnchanged(recs, o.st.recs, ids)
                    /\ {o.frame.tid} \cup Range(o.frame.rest) \subseteq ids

\* C19, witness: a pass over the subset {b} is inside the run of b, whose
\* record it has just made, while an execution of c, open and past its
\* timeout, is as it was.
C19_Witness ==
    /\ DOMAIN RegistryOf("backend1") = {"b", "c"}
    /\ \E f \in BagToSet(calls) :
          /\ f.kind = "pass" /\ f.pc = "running" /\ f.quiet
          /\ f.tid = "b" /\ f.rest = <<>>
          /\ recs[f.row].task_id = "b"
          /\ recs[f.row].start_time = now
    /\ \E i \in OpenRecords(recs, "c") :
          now - recs[i].start_time > getattr_timeout(TaskC)
====
